---- MODULE Spec2Model ----
(***************************************************************************)
(* CubismNova auxiliary tooling: the Version Stamper                       *)
(* (tools/version/gen_version.py), the Benchmark Aggregator                *)
(* (test/sandbox/Benchmarks/Kernel/Divergence/post.py) and the Job         *)
(* Submitter (test/sandbox/Benchmarks/Kernel/Divergence/euler/submit.py).  *)
(*                                                                         *)
(* Python strings are sequences of one-character strings.  A file is a     *)
(* record [exists, data].  The three utilities do not interact: each has   *)
(* its own specification, which leaves the other two utilities' variables  *)
(* untouched.                                                              *)
(***************************************************************************)
EXTENDS Integers, Sequences, FiniteSets, TLC

VARIABLES
    \* ---- Version Stamper: the files it is run on
    fVersion,          \* <project_root>/VERSION
    fHead,             \* <project_root>/.git/HEAD
    gitRefs,           \* <project_root>/.git/<ref path>: path -> content
    fTemplate,         \* args.input
    fOut,              \* args.output
    \* ---- Version Stamper: main()'s locals and position
    vpc,               \* position in main()
    version,           \* local `version`
    HEAD,              \* local `HEAD`  (a Python str or list)
    SHA1,              \* local `SHA1`  (a Python str or list)
    version_template,  \* local `version_template`
    opened,            \* the open() calls made so far, <<file, mode>> each
    exc,               \* the uncaught exception that ended main(), or "none"
    \* ---- Benchmark Aggregator
    files,             \* args.files, in the order supplied
    csv,               \* path -> the data rows of the file
    statsAppended,     \* path -> number of statistics blocks appended to it
    ppc,               \* position in main()
    todo,              \* the part of sorted(args.files) not yet processed
    da,                \* the running Summary Table (a sequence of mean rows)
    outTable,          \* the table written to args.output (<<>> before)
    \* ---- Job Submitter
    commonsh,          \* whether ./common.sh exists
    countfile,         \* the Job Counter file ./.count
    countfile0,        \* the Job Counter file before any invocation
    spc,               \* invocation -> position in the script
    count,             \* invocation -> local `count` (0: not yet bound)
    jobid,             \* invocation -> os.environ['JC_JOBID'] (<<>>: unset)
    tmplog,            \* invocation -> [name, lines] of its Job Temp Log
    rc,                \* what the latest Popen(...).wait() returned: the exit
                       \* code of that scheduler process (-1: none has run)
    exitcode,          \* invocation -> the script's own exit code (-1: running)
    stored,            \* the integer .count held after its latest write
                       \* (0: the file has never held one)
    overlapped         \* an invocation started while another was running

versionVars == <<fVersion, fHead, gitRefs, fTemplate, fOut, vpc, version, HEAD,
                 SHA1, version_template, opened, exc>>
postVars    == <<files, csv, statsAppended, ppc, todo, da, outTable>>
submitVars  == <<commonsh, countfile, countfile0, spc, count, jobid, tmplog,
                 rc, exitcode, stored, overlapped>>
vars        == <<versionVars, postVars, submitVars>>

-----------------------------------------------------------------------------
(* Files and Python values *)

NoFile     == [exists |-> FALSE, data |-> <<>>]
File(data) == [exists |-> TRUE, data |-> data]

PyStr(s)  == [type |-> "str", val |-> s]
PyList(l) == [type |-> "list", val |-> l]
PyNone    == [type |-> "none", val |-> <<>>]

-----------------------------------------------------------------------------
(* Python string methods *)

IsSpace(c) == c \in {" ", "\n", "\t"}

RECURSIVE LStrip(_)
LStrip(s) ==
    IF s # <<>> /\ IsSpace(Head(s)) THEN LStrip(Tail(s)) ELSE s

RECURSIVE RStrip(_)
RStrip(s) ==
    IF s # <<>> /\ IsSpace(s[Len(s)]) THEN RStrip(SubSeq(s, 1, Len(s) - 1)) ELSE s

\* str.strip()
Strip(s) == RStrip(LStrip(s))

\* str.split(sep) for a one-character separator: empty components are kept
RECURSIVE SplitOn(_, _)
SplitOn(s, sep) ==
    IF \A i \in 1..Len(s) : s[i] # sep
    THEN <<s>>
    ELSE LET i == CHOOSE k \in 1..Len(s) :
                      s[k] = sep /\ \A j \in 1..(k - 1) : s[j] # sep
         IN  <<SubSeq(s, 1, i - 1)>> \o SplitOn(SubSeq(s, i + 1, Len(s)), sep)

\* str.split(): runs of whitespace separate, empty components are dropped
RECURSIVE SplitWS(_)
SplitWS(s) ==
    LET t == LStrip(s)
    IN  IF t = <<>>
        THEN <<>>
        ELSE LET n == IF \E k \in 1..Len(t) : IsSpace(t[k])
                      THEN CHOOSE k \in 1..Len(t) :
                               IsSpace(t[k]) /\ \A j \in 1..(k - 1) : ~IsSpace(t[j])
                      ELSE Len(t) + 1
             IN  <<SubSeq(t, 1, n - 1)>> \o SplitWS(SubSeq(t, n, Len(t)))

\* str.replace(old, new): every non-overlapping occurrence, left to right
RECURSIVE Replace(_, _, _)
Replace(s, old, new) ==
    IF Len(s) < Len(old) \/ old = <<>>
    THEN s
    ELSE IF SubSeq(s, 1, Len(old)) = old
         THEN new \o Replace(SubSeq(s, Len(old) + 1, Len(s)), old, new)
         ELSE <<Head(s)>> \o Replace(Tail(s), old, new)

-----------------------------------------------------------------------------
(* Version Stamper: tools/version/gen_version.py *)

PhVersion == <<"@", "V", "E", "R", "S", "I", "O", "N", "@">>
PhHead    == <<"@", "H", "E", "A", "D", "@">>
PhSha1    == <<"@", "S", "H", "A", "1", "@">>

\* the inputs main() is run on
VersionFiles ==
    { NoFile,
      File(<<"1", ".", "2", ".", "3", "\n">>),
      File(<<" ", "1", ".", "2", ".", "3">>),
      File(<<"1", ".", "2", "\n">>),
      File(<<"1", ".", "2", ".", "3", ".", "4">>),
      File(<<"7", "\n">>),
      File(<<>>) }

HeadFiles ==
    { NoFile,
      File(<<"r", ":", " ", "m", "\n">>),      \* symbolic ref to .git/m
      File(<<"r", ":", " ", "x", "\n">>),      \* symbolic ref, ref file missing
      File(<<"a", "b", "\n">>),                \* detached head: a bare hash
      File(<<>>) }

GitRefs == [p \in {<<"m">>} |-> <<"c", "1", "\n">>]

TemplateFiles ==
    { NoFile,
      File(<<"v">> \o PhVersion \o <<" ", "(">> \o PhHead \o <<"/">> \o PhSha1 \o <<")">>),
      File(PhSha1 \o PhSha1 \o <<"\n">>) }

OldOutput == <<"o", "l", "d">>

OutFiles == { NoFile, File(OldOutput) }

VersionInit ==
    /\ fVersion \in VersionFiles
    /\ fHead \in HeadFiles
    /\ gitRefs = GitRefs
    /\ fTemplate \in TemplateFiles
    /\ fOut \in OutFiles
    /\ vpc = "start"
    /\ version = <<>>
    /\ HEAD = PyNone
    /\ SHA1 = PyNone
    /\ version_template = PyNone
    /\ opened = <<>>
    /\ exc = "none"

VersionIdle ==
    /\ fVersion = NoFile
    /\ fHead = NoFile
    /\ gitRefs = GitRefs
    /\ fTemplate = NoFile
    /\ fOut = NoFile
    /\ vpc = "idle"
    /\ version = <<>>
    /\ HEAD = PyNone
    /\ SHA1 = PyNone
    /\ version_template = PyNone
    /\ opened = <<>>
    /\ exc = "none"

\* an uncaught exception ends main()
Raise(e) ==
    /\ vpc' = "error"
    /\ exc' = e

\* `major, minor, patch = parts': unpacking needs exactly three values
UnpackOK_lenient(parts) == Len(parts) >= 3

UnpackOK(parts) == Len(parts) = 3

\* lines 25-28: read VERSION, strip, split on '.', unpack
ReadVersionMissing ==
    /\ vpc = "start"
    /\ ~fVersion.exists
    /\ opened' = Append(opened, <<"VERSION", "r">>)
    /\ Raise("FileNotFoundError")
    /\ UNCHANGED <<fVersion, fHead, gitRefs, fTemplate, fOut, version, HEAD,
                   SHA1, version_template>>
    /\ UNCHANGED <<postVars, submitVars>>

ReadVersion ==
    /\ vpc = "start"
    /\ fVersion.exists
    /\ opened' = Append(opened, <<"VERSION", "r">>)
    /\ version' = Strip(fVersion.data)
    /\ IF UnpackOK(SplitOn(version', "."))
       THEN vpc' = "head" /\ exc' = exc
       ELSE Raise("ValueError")
    /\ UNCHANGED <<fVersion, fHead, gitRefs, fTemplate, fOut, HEAD, SHA1,
                   version_template>>
    /\ UNCHANGED <<postVars, submitVars>>

\* lines 30-33: HEAD = SHA1 = '', and .git/HEAD is no file
NoGitHead ==
    /\ vpc = "head"
    /\ ~fHead.exists
    /\ HEAD' = PyStr(<<>>)
    /\ SHA1' = PyStr(<<>>)
    /\ vpc' = "template"
    /\ UNCHANGED <<fVersion, fHead, gitRefs, fTemplate, fOut, version,
                   version_template, opened, exc>>
    /\ UNCHANGED <<postVars, submitVars>>

\* lines 34-41: .git/HEAD holds more than one token: follow the ref
SymbolicHead ==
    /\ vpc = "head"
    /\ fHead.exists
    /\ LET toks == SplitWS(Strip(fHead.data))
       IN  /\ Len(toks) > 1
           /\ HEAD' = PyStr(toks[2])
           /\ opened' = opened \o << <<"HEAD", "r">>, <<"ref", "r">> >>
           /\ IF toks[2] \in DOMAIN gitRefs
              THEN /\ SHA1' = PyStr(Strip(gitRefs[toks[2]]))
                   /\ vpc' = "template"
                   /\ exc' = exc
              ELSE /\ SHA1' = PyStr(<<>>)
                   /\ Raise("FileNotFoundError")
    /\ UNCHANGED <<fVersion, fHead, gitRefs, fTemplate, fOut, version,
                   version_template>>
    /\ UNCHANGED <<postVars, submitVars>>

\* lines 34-37, 42-43: at most one token: HEAD is the list str.split() returned
\* and SHA1 is bound to that same list
DetachedHead ==
    /\ vpc = "head"
    /\ fHead.exists
    /\ LET toks == SplitWS(Strip(fHead.data))
       IN  /\ Len(toks) <= 1
           /\ HEAD' = PyList(toks)
           /\ SHA1' = PyList(toks)
    /\ opened' = Append(opened, <<"HEAD", "r">>)
    /\ vpc' = "template"
    /\ UNCHANGED <<fVersion, fHead, gitRefs, fTemplate, fOut, version,
                   version_template, exc>>
    /\ UNCHANGED <<postVars, submitVars>>

\* lines 45-46: read the template
ReadTemplateMissing ==
    /\ vpc = "template"
    /\ ~fTemplate.exists
    /\ opened' = Append(opened, <<"input", "r">>)
    /\ Raise("FileNotFoundError")
    /\ UNCHANGED <<fVersion, fHead, gitRefs, fTemplate, fOut, version, HEAD,
                   SHA1, version_template>>
    /\ UNCHANGED <<postVars, submitVars>>

ReadTemplate ==
    /\ vpc = "template"
    /\ fTemplate.exists
    /\ opened' = Append(opened, <<"input", "r">>)
    /\ version_template' = PyStr(fTemplate.data)
    /\ vpc' = "replace"
    /\ UNCHANGED <<fVersion, fHead, gitRefs, fTemplate, fOut, version, HEAD,
                   SHA1, exc>>
    /\ UNCHANGED <<postVars, submitVars>>

\* what lines 48-50 evaluate: three str.replace() calls on version_template
Substituted(t, v, h, s) ==
    <<Replace(t, PhVersion, v), Replace(t, PhHead, h), Replace(t, PhSha1, s)>>

\* lines 48-50: str.replace() returns a new string, which is dropped each time;
\* version_template stays bound to the template as read
SubstituteOK ==
    /\ vpc = "replace"
    /\ HEAD.type = "str"
    /\ SHA1.type = "str"
    /\ LET dropped == Substituted(version_template.val, version, HEAD.val, SHA1.val)
       IN  version_template' = version_template
    /\ vpc' = "write"
    /\ UNCHANGED <<fVersion, fHead, gitRefs, fTemplate, fOut, version, HEAD,
                   SHA1, opened, exc>>
    /\ UNCHANGED <<postVars, submitVars>>

\* line 49: str.replace('@HEAD@', HEAD) with HEAD a list
SubstituteTypeError ==
    /\ vpc = "replace"
    /\ HEAD.type = "list"
    /\ Raise("TypeError")
    /\ UNCHANGED <<fVersion, fHead, gitRefs, fTemplate, fOut, version, HEAD,
                   SHA1, version_template, opened>>
    /\ UNCHANGED <<postVars, submitVars>>

\* line 51: open(args.output, 'r') of a path that is no file
OpenOutputMissing ==
    /\ vpc = "write"
    /\ ~fOut.exists
    /\ opened' = Append(opened, <<"output", "r">>)
    /\ Raise("FileNotFoundError")
    /\ UNCHANGED <<fVersion, fHead, gitRefs, fTemplate, fOut, version, HEAD,
                   SHA1, version_template>>
    /\ UNCHANGED <<postVars, submitVars>>

\* lines 51-52: the output is opened for reading; out.write() on it raises
\* io.UnsupportedOperation and the file keeps its content
WriteOutput ==
    /\ vpc = "write"
    /\ fOut.exists
    /\ opened' = Append(opened, <<"output", "r">>)
    /\ fOut' = fOut
    /\ Raise("UnsupportedOperation")
    /\ UNCHANGED <<fVersion, fHead, gitRefs, fTemplate, version, HEAD, SHA1,
                   version_template>>
    /\ UNCHANGED <<postVars, submitVars>>

VersionNext ==
    \/ ReadVersionMissing
    \/ ReadVersion
    \/ NoGitHead
    \/ SymbolicHead
    \/ DetachedHead
    \/ ReadTemplateMissing
    \/ ReadTemplate
    \/ SubstituteOK
    \/ SubstituteTypeError
    \/ OpenOutputMissing
    \/ WriteOutput

-----------------------------------------------------------------------------
(* Benchmark Aggregator: test/sandbox/Benchmarks/Kernel/Divergence/post.py *)

MaxFiles == 3

\* code points of the characters the paths are written in
Ord == [c \in {"B", "a", "b"} |-> IF c = "B" THEN 66 ELSE IF c = "a" THEN 97 ELSE 98]

\* Python's `<' on str: lexicographic by code point, a proper prefix is smaller
RECURSIVE LexLess(_, _)
LexLess(s, t) ==
    IF t = <<>> THEN FALSE
    ELSE IF s = <<>> THEN TRUE
    ELSE IF Head(s) = Head(t) THEN LexLess(Tail(s), Tail(t))
    ELSE Ord[Head(s)] < Ord[Head(t)]

\* sorted(): a stable sort, here by insertion
RECURSIVE Insert(_, _)
Insert(x, s) ==
    IF s = <<>> THEN <<x>>
    ELSE IF LexLess(x, Head(s)) THEN <<x>> \o s
    ELSE <<Head(s)>> \o Insert(x, Tail(s))

RECURSIVE Sorted(_)
Sorted(s) ==
    IF s = <<>> THEN <<>>
    ELSE Insert(s[Len(s)], Sorted(SubSeq(s, 1, Len(s) - 1)))

\* line 23: the order the loop visits args.files in
LoopOrder_unsorted(fs) == fs

LoopOrder(fs) == Sorted(fs)

Paths == { <<"a">>, <<"a", "b">>, <<"b">>, <<"B">> }

\* the rows of each data file: blocks, t_init, t_comp, t_dump, t_tot
PostData ==
    [p \in Paths |->
        IF p = <<"a">> THEN << <<4, 1, 2, 3, 6>> >>
        ELSE IF p = <<"a", "b">> THEN << <<4, 1, 2, 3, 6>>, <<8, 3, 2, 1, 6>> >>
        ELSE IF p = <<"b">> THEN << <<2, 1, 1, 1, 3>>, <<2, 2, 2, 2, 6>>, <<2, 0, 3, 0, 3>> >>
        ELSE << <<16, 5, 5, 5, 15>> >>]

RECURSIVE ColumnSum(_, _)
ColumnSum(rows, c) ==
    IF rows = <<>> THEN 0 ELSE rows[1][c] + ColumnSum(Tail(rows), c)

\* lines 24-26: df.describe().loc['mean'], each mean as the fraction sum/count
MeanRow(rows) == [c \in 1..5 |-> <<ColumnSum(rows, c), Len(rows)>>]

Range(s) == { s[i] : i \in 1..Len(s) }

\* args.files: 1..MaxFiles distinct paths in any order
FileLists ==
    UNION { { s \in [1..n -> Paths] : \A i, j \in 1..n : i # j => s[i] # s[j] }
            : n \in 1..MaxFiles }

PostInit ==
    /\ files \in FileLists
    /\ csv = PostData
    /\ statsAppended = [p \in Paths |-> 0]
    /\ ppc = "start"
    /\ todo = <<>>
    /\ da = <<>>
    /\ outTable = <<>>

PostIdle ==
    /\ files = <<>>
    /\ csv = PostData
    /\ statsAppended = [p \in Paths |-> 0]
    /\ ppc = "idle"
    /\ todo = <<>>
    /\ da = <<>>
    /\ outTable = <<>>

\* lines 20-23: empty table, enter the loop over sorted(args.files)
PostStart ==
    /\ ppc = "start"
    /\ da' = <<>>
    /\ todo' = LoopOrder(files)
    /\ ppc' = "loop"
    /\ UNCHANGED <<files, csv, statsAppended, outTable>>
    /\ UNCHANGED <<versionVars, submitVars>>

\* lines 24-28: one iteration: read f, append its mean row to the table, append
\* the statistics block to f itself (a file is read before its block is appended)
ProcessFile ==
    /\ ppc = "loop"
    /\ todo # <<>>
    /\ LET f == Head(todo)
       IN  /\ statsAppended[f] = 0
           /\ da' = Append(da, MeanRow(csv[f]))
           /\ statsAppended' = [statsAppended EXCEPT ![f] = @ + 1]
    /\ todo' = Tail(todo)
    /\ UNCHANGED <<files, csv, ppc, outTable>>
    /\ UNCHANGED <<versionVars, submitVars>>

\* lines 29-30: the loop is over: write the table, no index column
WriteTable ==
    /\ ppc = "loop"
    /\ todo = <<>>
    /\ outTable' = da
    /\ ppc' = "done"
    /\ UNCHANGED <<files, csv, statsAppended, todo, da>>
    /\ UNCHANGED <<versionVars, submitVars>>

PostNext ==
    \/ PostStart
    \/ ProcessFile
    \/ WriteTable

-----------------------------------------------------------------------------
(* Job Submitter: test/sandbox/Benchmarks/Kernel/Divergence/euler/submit.py *)

NumInvocations == 4
MaxExit        == 1
JobIdWidth     == 4

Invocations == 1..NumInvocations
ExitCodes   == 0..MaxExit

Digits == <<"0", "1", "2", "3", "4", "5", "6", "7", "8", "9">>

DigitVal(c) == (CHOOSE d \in 1..10 : Digits[d] = c) - 1

IsDigits(s) == \A i \in 1..Len(s) : \E d \in 1..10 : Digits[d] = s[i]

\* '%d' % n, for n >= 0
RECURSIVE FmtD(_)
FmtD(n) ==
    IF n < 10 THEN <<Digits[n + 1]>>
    ELSE FmtD(n \div 10) \o <<Digits[(n % 10) + 1]>>

\* int(s) succeeds on a non-empty string of digits (no sign or blanks are
\* ever written to .count)
IntOK(s) == s # <<>> /\ IsDigits(s)

RECURSIVE ParseInt(_)
ParseInt(s) ==
    IF s = <<>> THEN 0
    ELSE ParseInt(SubSeq(s, 1, Len(s) - 1)) * 10 + DigitVal(s[Len(s)])

RECURSIVE ZeroPad(_, _)
ZeroPad(s, w) == IF Len(s) >= w THEN s ELSE ZeroPad(<<"0">> \o s, w)

\* line 42: '%04d' % count: zero-padded to a minimum field width of four
JobIdFormat_unpadded(n) == FmtD(n)

JobIdFormat(n) == ZeroPad(FmtD(n), JobIdWidth)

\* line 37: the value written back, count+1
NextCount_same(c) == c

NextCount_skip(c) == c + 2

NextCount(c) == c + 1

\* line 40: the text a new .count is initialised with
InitialCountText_one == <<"1">>

InitialCountText == <<"2">>

\* line 41: the job id used when .count was absent
FirstJobId_two == 1 + 1

FirstJobId == 1

\* lines 61, 64: Popen(...).wait() returns the scheduler's exit code c; the
\* value is dropped and the script runs off its end
ScriptExit_propagated(c) == c

ScriptExit(c) == 0

\* open(countfile, 'w'): the file is created or truncated when it is opened
Truncated == File(<<>>)

\* the buffered text reaches the file when the `with' block closes it: it is
\* written at offset 0 of the file as it then is, and bytes another writer put
\* beyond its end since this writer's truncation stay
WrittenAtStart(f, text) ==
    File(text \o SubSeq(f.data, Len(text) + 1, Len(f.data)))

\* now.strftime('%Y-%m-%d'), now.strftime('%H:%M')
JobDate == <<"D">>
JobTime == <<"T">>

\* lines 46-58: the Job Temp Log's name parts and its three lines
TempLog(id) == [name |-> <<JobDate, JobTime, id>>, lines |-> <<JobDate, JobTime, id>>]

NoLog == [name |-> <<>>, lines |-> <<>>]

\* the integers .count holds before the first invocation, when it exists
InitCounts == {9998}

SubmitInit ==
    /\ commonsh \in BOOLEAN
    /\ countfile0 \in {NoFile} \cup { File(FmtD(n)) : n \in InitCounts }
    /\ countfile = countfile0
    /\ spc = [p \in Invocations |-> "idle"]
    /\ count = [p \in Invocations |-> 0]
    /\ jobid = [p \in Invocations |-> <<>>]
    /\ tmplog = [p \in Invocations |-> NoLog]
    /\ rc = -1
    /\ exitcode = [p \in Invocations |-> -1]
    /\ stored = IF countfile0.exists THEN ParseInt(countfile0.data) ELSE 0
    /\ overlapped = FALSE

SubmitIdle ==
    /\ commonsh = FALSE
    /\ countfile0 = NoFile
    /\ countfile = NoFile
    /\ spc = [p \in Invocations |-> "off"]
    /\ count = [p \in Invocations |-> 0]
    /\ jobid = [p \in Invocations |-> <<>>]
    /\ tmplog = [p \in Invocations |-> NoLog]
    /\ rc = -1
    /\ exitcode = [p \in Invocations |-> -1]
    /\ stored = 0
    /\ overlapped = FALSE

Running(p) == spc[p] \notin {"idle", "off", "done", "error"}

\* invocations are numbered in the order they start
NextToStart(p) == spc[p] = "idle" /\ \A q \in 1..(p - 1) : spc[q] # "idle"

\* lines 19-24, 62: the script starts; ./common.sh is no file
StartPlain(p) ==
    /\ NextToStart(p)
    /\ ~commonsh
    /\ spc' = [spc EXCEPT ![p] = "plain"]
    /\ overlapped' = (overlapped \/ \E q \in Invocations \ {p} : Running(q))
    /\ UNCHANGED <<commonsh, countfile, countfile0, count, jobid, tmplog, rc,
                   exitcode, stored>>
    /\ UNCHANGED <<versionVars, postVars>>

\* lines 19-33: the script starts, sources ./common.sh and tests for .count
StartConfig(p) ==
    /\ NextToStart(p)
    /\ commonsh
    /\ spc' = [spc EXCEPT ![p] = IF countfile.exists THEN "read" ELSE "create"]
    /\ overlapped' = (overlapped \/ \E q \in Invocations \ {p} : Running(q))
    /\ UNCHANGED <<commonsh, countfile, countfile0, count, jobid, tmplog, rc,
                   exitcode, stored>>
    /\ UNCHANGED <<versionVars, postVars>>

\* lines 34-35: count = int(cf.readline())
ReadCount(p) ==
    /\ spc[p] = "read"
    /\ countfile.exists
    /\ IntOK(countfile.data)
    /\ count' = [count EXCEPT ![p] = ParseInt(countfile.data)]
    /\ spc' = [spc EXCEPT ![p] = "openw"]
    /\ UNCHANGED <<commonsh, countfile, countfile0, jobid, tmplog, rc, exitcode,
                   stored, overlapped>>
    /\ UNCHANGED <<versionVars, postVars>>

\* line 35: int('') raises ValueError: .count was read between another
\* invocation's truncation and its write
ReadCountFail(p) ==
    /\ spc[p] = "read"
    /\ countfile.exists
    /\ ~IntOK(countfile.data)
    /\ spc' = [spc EXCEPT ![p] = "error"]
    /\ exitcode' = [exitcode EXCEPT ![p] = 1]
    /\ UNCHANGED <<commonsh, countfile, countfile0, count, jobid, tmplog, rc,
                   stored, overlapped>>
    /\ UNCHANGED <<versionVars, postVars>>

\* line 36: open(countfile, 'w')
OpenWrite(p) ==
    /\ spc[p] = "openw"
    /\ countfile' = Truncated
    /\ spc' = [spc EXCEPT ![p] = "write"]
    /\ UNCHANGED <<commonsh, countfile0, count, jobid, tmplog, rc, exitcode,
                   stored, overlapped>>
    /\ UNCHANGED <<versionVars, postVars>>

\* lines 42-59: JC_JOBID and the Job Temp Log
AssignJobId(p, c) ==
    /\ jobid' = [jobid EXCEPT ![p] = JobIdFormat(c)]
    /\ tmplog' = [tmplog EXCEPT ![p] = TempLog(JobIdFormat(c))]
    /\ spc' = [spc EXCEPT ![p] = "bsub"]

\* line 37 and the close of its `with' block, then lines 42-59
WriteCount(p) ==
    /\ spc[p] = "write"
    /\ countfile' = WrittenAtStart(countfile, FmtD(NextCount(count[p])))
    /\ stored' = ParseInt(countfile'.data)
    /\ AssignJobId(p, count[p])
    /\ UNCHANGED <<commonsh, countfile0, count, rc, exitcode, overlapped>>
    /\ UNCHANGED <<versionVars, postVars>>

\* line 39: open(countfile, 'w') of the absent file
OpenCreate(p) ==
    /\ spc[p] = "create"
    /\ countfile' = Truncated
    /\ spc' = [spc EXCEPT ![p] = "createw"]
    /\ UNCHANGED <<commonsh, countfile0, count, jobid, tmplog, rc, exitcode,
                   stored, overlapped>>
    /\ UNCHANGED <<versionVars, postVars>>

\* lines 40-41 and the close of the `with' block, then lines 42-59
WriteCreate(p) ==
    /\ spc[p] = "createw"
    /\ countfile' = WrittenAtStart(countfile, InitialCountText)
    /\ stored' = ParseInt(countfile'.data)
    /\ count' = [count EXCEPT ![p] = FirstJobId]
    /\ AssignJobId(p, FirstJobId)
    /\ UNCHANGED <<commonsh, countfile0, rc, exitcode, overlapped>>
    /\ UNCHANGED <<versionVars, postVars>>

\* lines 60-61: bsub with the prolog and epilog hooks runs and exits with c;
\* the script waits for it and ends
Bsub(p) ==
    /\ spc[p] = "bsub"
    /\ \E c \in ExitCodes :
          /\ rc' = c
          /\ exitcode' = [exitcode EXCEPT ![p] = ScriptExit(c)]
    /\ spc' = [spc EXCEPT ![p] = "done"]
    /\ UNCHANGED <<commonsh, countfile, countfile0, count, jobid, tmplog,
                   stored, overlapped>>
    /\ UNCHANGED <<versionVars, postVars>>

\* lines 63-64: the plain bsub command runs and exits with c
BsubPlain(p) ==
    /\ spc[p] = "plain"
    /\ \E c \in ExitCodes :
          /\ rc' = c
          /\ exitcode' = [exitcode EXCEPT ![p] = ScriptExit(c)]
    /\ spc' = [spc EXCEPT ![p] = "done"]
    /\ UNCHANGED <<commonsh, countfile, countfile0, count, jobid, tmplog,
                   stored, overlapped>>
    /\ UNCHANGED <<versionVars, postVars>>

SubmitNext ==
    \E p \in Invocations :
        \/ StartPlain(p)
        \/ StartConfig(p)
        \/ ReadCount(p)
        \/ ReadCountFail(p)
        \/ OpenWrite(p)
        \/ WriteCount(p)
        \/ OpenCreate(p)
        \/ WriteCreate(p)
        \/ Bsub(p)
        \/ BsubPlain(p)

-----------------------------------------------------------------------------
(* Specifications: one per utility *)

InitVersion == VersionInit /\ PostIdle /\ SubmitIdle

SpecVersion == InitVersion /\ [][VersionNext]_vars

InitPost == PostInit /\ VersionIdle /\ SubmitIdle

SpecPost == InitPost /\ [][PostNext]_vars

InitSubmit == SubmitInit /\ VersionIdle /\ PostIdle

SpecSubmit == InitSubmit /\ [][SubmitNext]_vars

-----------------------------------------------------------------------------
(* Version Stamper: properties *)

VersionParts == SplitOn(Strip(fVersion.data), ".")

HeadTokens == SplitWS(Strip(fHead.data))

VersionEnded == vpc \in {"done", "error"}

HeadResolved == vpc \in {"template", "replace", "write", "done"}

\* head reference and commit hash as section 4.3 step 2 resolves them
ExpectedHead ==
    IF ~fHead.exists \/ HeadTokens = <<>> THEN <<>>
    ELSE IF Len(HeadTokens) > 1 THEN HeadTokens[2]
    ELSE HeadTokens[1]

ExpectedSha1 ==
    IF ~fHead.exists \/ HeadTokens = <<>> THEN <<>>
    ELSE IF Len(HeadTokens) > 1
         THEN IF HeadTokens[2] \in DOMAIN gitRefs THEN Strip(gitRefs[HeadTokens[2]]) ELSE <<>>
    ELSE HeadTokens[1]

ExpectedOutput ==
    Replace(Replace(Replace(fTemplate.data, PhVersion, Strip(fVersion.data)),
                    PhHead, ExpectedHead),
            PhSha1, ExpectedSha1)

\* VERSION has three components and every path main() reads is there
ReadableInputs ==
    /\ fVersion.exists
    /\ Len(VersionParts) = 3
    /\ fTemplate.exists
    /\ (fHead.exists /\ Len(HeadTokens) > 1) => HeadTokens[2] \in DOMAIN gitRefs

\* there is no .git/HEAD, or it names a ref (the detached head is C6's case)
NoHeadOrSymbolic == ~fHead.exists \/ Len(HeadTokens) > 1

\* C2: with a three-component VERSION and all paths readable and writable,
\* main() ends normally and the output file holds the template with @VERSION@,
\* @HEAD@ and @SHA1@ replaced by the version string, the head reference and the
\* commit hash.
C2_OutputIsSubstitutedTemplate ==
    (ReadableInputs /\ NoHeadOrSymbolic /\ VersionEnded) =>
        /\ vpc = "done"
        /\ fOut.exists
        /\ fOut.data = ExpectedOutput

\* C3: a VERSION whose stripped content does not split on '.' into exactly
\* three components ends main() with an uncaught error, raised before the
\* template is read and before the output path is opened: the only file ever
\* opened is VERSION, and the output file is as it was.
C3_MalformedVersionIsFatal ==
    (fVersion.exists /\ Len(VersionParts) # 3 /\ vpc # "start") =>
        /\ vpc = "error"
        /\ exc = "ValueError"
        /\ opened = << <<"VERSION", "r">> >>
        /\ version_template = PyNone
        /\ fOut \in OutFiles

\* C3 witness: the run on VERSION = "1.2" has ended in the ValueError
C3_TwoComponentVersionRejected ==
    /\ vpc = "error"
    /\ exc = "ValueError"
    /\ version = <<"1", ".", "2">>
    /\ Len(VersionParts) = 2

\* C6: head resolution. .git/HEAD absent: head reference and commit hash are
\* both ''. More than one token: the head reference is the second token and the
\* commit hash the stripped content of .git/<second token>. A single token:
\* that token, a string, is the commit hash, and the stamper completes and
\* substitutes it for @SHA1@.
C6_HeadResolution ==
    /\ (HeadResolved /\ ~fHead.exists) =>
           /\ HEAD.type = "str" /\ HEAD.val = <<>>
           /\ SHA1.type = "str" /\ SHA1.val = <<>>
    /\ (HeadResolved /\ fHead.exists /\ Len(HeadTokens) > 1) =>
           /\ HEAD.type = "str" /\ HEAD.val = HeadTokens[2]
           /\ SHA1.type = "str" /\ SHA1.val = Strip(gitRefs[HeadTokens[2]])
    /\ (HeadResolved /\ fHead.exists /\ Len(HeadTokens) = 1) =>
           /\ SHA1.type = "str" /\ SHA1.val = HeadTokens[1]
    /\ (VersionEnded /\ ReadableInputs /\ fHead.exists /\ Len(HeadTokens) = 1) =>
           /\ vpc = "done"
           /\ fOut.exists
           /\ fOut.data = ExpectedOutput

-----------------------------------------------------------------------------
(* Benchmark Aggregator: properties *)

\* the paths of S in increasing lexicographic order
SortedPaths(S) ==
    CHOOSE s \in [1..Cardinality(S) -> S] :
        \A i, j \in 1..Cardinality(S) : i < j => LexLess(s[i], s[j])

\* C5: the Summary Table written to the output has exactly one row per
\* supplied input file, and row i is the mean row of the i-th path in
\* lexicographic order: the table depends on the set of paths alone, not on
\* the order they were supplied in.
C5_TableInSortedOrder ==
    ppc = "done" =>
        /\ Len(outTable) = Len(files)
        /\ \A i \in 1..Len(files) :
               outTable[i] = MeanRow(PostData[SortedPaths(Range(files))[i]])

\* C5 witness: a table was written for three files supplied out of order
C5_UnsortedInputWritten ==
    /\ ppc = "done"
    /\ Len(files) = 3
    /\ Len(outTable) = 3
    /\ \E i, j \in 1..Len(files) : i < j /\ LexLess(files[j], files[i])

-----------------------------------------------------------------------------
(* Job Submitter: properties *)

\* the invocation has been given its job id (line 42)
Assigned(p) == jobid[p] # <<>>

AssignedIds == { count[p] : p \in { q \in Invocations : Assigned(q) } }

\* the job id the first invocation is due: n when .count held n, 1 when absent
BaseId == IF countfile0.exists THEN ParseInt(countfile0.data) ELSE 1

\* every invocation that started has ended, and one has
AllCompleted ==
    /\ \A p \in Invocations : ~Running(p)
    /\ \E p \in Invocations : spc[p] \in {"done", "error"}

\* an id k+1 was assigned and id k, not below the smallest assigned id, was not
SkippedId ==
    \E p \in Invocations :
        /\ Assigned(p)
        /\ \E q \in Invocations : Assigned(q) /\ count[q] <= count[p] - 1
        /\ (count[p] - 1) \notin AssignedIds

\* C1: non-overlapping invocations on the config path. The k-th invocation is
\* assigned the id .count held when it started (1, rendered 0001, when .count
\* was absent) and leaves .count holding that id plus one (2 when it was
\* absent): from an absent .count the k-th invocation gets id k and leaves k+1.
C1_SequentialCounter ==
    (commonsh /\ ~overlapped) =>
        \A p \in Invocations :
            /\ spc[p] # "error"
            /\ Assigned(p) =>
                /\ count[p] = BaseId + (p - 1)
                /\ (count[p] = 1 => jobid[p] = <<"0", "0", "0", "1">>)
                /\ (count[p] = 2 => jobid[p] = <<"0", "0", "0", "2">>)
                /\ (p = NumInvocations \/ spc[IF p = NumInvocations THEN p ELSE p + 1] = "idle") =>
                       /\ countfile.exists
                       /\ IntOK(countfile.data)
                       /\ ParseInt(countfile.data) = count[p] + 1
                       /\ (count[p] = 1 => countfile.data = <<"2">>)
                       /\ (count[p] = 2 => countfile.data = <<"3">>)

\* C1 witness: from an absent .count, two invocations ran one after the other
C1_TwoSequentialRuns ==
    /\ commonsh
    /\ ~overlapped
    /\ ~countfile0.exists
    /\ spc[1] = "done"
    /\ spc[2] = "done"
    /\ jobid[2] = <<"0", "0", "0", "2">>
    /\ countfile.data = <<"3">>

\* an invocation's scheduler process exits in this step
SchedulerExits(p) == spc[p] \in {"bsub", "plain"} /\ spc'[p] = "done"

FirstCreated == stored = 0 /\ stored' # 0

\* C7 (as stated): under any interleaving the integer stored in .count never
\* decreases from one write to the next, and .count is first created with 2.
C7_CounterNeverDecreases ==
    [][(stored' >= stored) /\ (FirstCreated => stored' = 2)]_vars

\* C7 (amended): .count is first created with 2 under any interleaving; the
\* integer stored in it never decreases from one write to the next as long as
\* no invocation has started while another was running.
C7_SequentialCounterNeverDecreases ==
    [][(~overlapped' => stored' >= stored) /\ (FirstCreated => stored' = 2)]_vars

\* C7 witness: created with 2, then rewritten with 3 by the next invocation
C7_CreatedThenIncremented ==
    /\ commonsh
    /\ ~overlapped
    /\ ~countfile0.exists
    /\ stored = 3
    /\ countfile = File(<<"3">>)

\* C8: invocations that run strictly one after another are assigned pairwise
\* distinct job ids (overlapping ones can be assigned the same id: the witness).
C8_SequentialJobIdsDistinct ==
    ~overlapped =>
        \A p, q \in Invocations :
            (p # q /\ Assigned(p) /\ Assigned(q)) => jobid[p] # jobid[q]

\* C8 witness: two distinct invocations hold the same job id
C8_DuplicateJobId ==
    \E p, q \in Invocations :
        p # q /\ Assigned(p) /\ Assigned(q) /\ jobid[p] = jobid[q]

\* C9: a skipped job id is produced by concurrent invocations only: when all
\* invocations have completed and some id k+1 is assigned while id k is not,
\* invocations overlapped (and such a state is reachable: the witness).
C9_SkippedIdOnlyByOverlap ==
    (AllCompleted /\ SkippedId) => overlapped

\* C9 witness: all invocations have completed and an id was skipped
C9_SkippedJobId ==
    /\ AllCompleted
    /\ SkippedId
    /\ \A p \in Invocations : spc[p] = "done"

\* the job id as exported, as part of the log's name and as its third line
JobIdOf(p) == <<jobid[p], tmplog[p].name[3], tmplog[p].lines[3]>>

\* C10 (as stated): JC_JOBID, the id in the Job Temp Log's name and the log's
\* third line are always exactly 4 decimal digits, for counters of 10000 and
\* above too.
C10_JobIdExactlyFourDigits ==
    \A p \in Invocations :
        Assigned(p) =>
            \A i \in 1..3 : IsDigits(JobIdOf(p)[i]) /\ Len(JobIdOf(p)[i]) = 4

\* C10 (amended): they are the counter in decimal, left-padded with zeros to
\* at least 4 digits: exactly 4 digits for counters up to 9999, and as many
\* digits as the counter has, without padding, from 10000 on.
C10_JobIdAtLeastFourDigits ==
    \A p \in Invocations :
        Assigned(p) =>
            \A i \in 1..3 :
                /\ IsDigits(JobIdOf(p)[i])
                /\ ParseInt(JobIdOf(p)[i]) = count[p]
                /\ (count[p] <= 9999 => Len(JobIdOf(p)[i]) = 4)
                /\ (count[p] >= 10000 =>
                        Len(JobIdOf(p)[i]) > 4 /\ JobIdOf(p)[i][1] # "0")

\* C10 witness: counter 10000 was read and rendered with five digits
C10_FiveDigitJobId ==
    \E p \in Invocations :
        /\ Assigned(p)
        /\ count[p] = 10000
        /\ jobid[p] = <<"1", "0", "0", "0", "0">>
        /\ tmplog[p].lines[3] = jobid[p]

====
